---- MODULE Spec2Model ----
(***************************************************************************)
(* Model of the request executor of cloudcraft-go: Client.do together with *)
(* the retry policy it consults (internal/xhttp/retry.go) and the response *)
(* body helper (internal/xhttp/response.go).                                *)
(*                                                                         *)
(* One call of Client.do is a sequential process with two suspension       *)
(* points, the send (httpClient.Do) and the backoff wait (RetryPolicy.Wait)*)
(* The environment chooses what every send returns, whether a body read    *)
(* fails, and when the caller's context is cancelled.                      *)
(***************************************************************************)
EXTENDS Integers, Sequences, FiniteSets, TLC

\* ---------------------------------------------------------------- bounds
\* Largest retryPolicy.MaxRetries explored.
MaxR == 2

\* Longest request / response body explored.
MaxBodyLen == 1

\* The range of HTTP status codes given to DefaultIsRetryable.
MinStatus == 100

MaxStatus == 599

\* Largest attempt number given to Wait.
MaxAttempt == 14

\* Width in bits of time.Duration in the model.  The program's Duration is
\* a 64-bit count of nanoseconds; the model counts tenths of a second in
\* this many bits, so that the conversion of line 52 leaves the range at
\* attempt 12 rather than at attempt 34.
DurationBits == 16

\* rand.Float64()*2 - 1 takes the values r / JitterGrain, r in
\* -JitterGrain .. JitterGrain - 1.
JitterGrain == 2

\* ------------------------------------------------------- program constants
\* time.Second, in the model's unit of a tenth of a second.
Second == 10

\* retry.go lines 13-14: _backoffFactor is 2; _jitterFactor is 0.1, kept
\* as its inverse.
BackoffFactor == 2

JitterFactorInverse == 10

\* retry.go lines 20 and 24.
DefaultMinRetryDelay == 1 * Second

DefaultMaxRetryDelay == 30 * Second

StatusOK == 200
StatusCreated == 201
StatusAccepted == 202
StatusNoContent == 204
StatusFound == 302
StatusRequestTimeout == 408
StatusTeapot == 418
StatusTooManyRequests == 429
StatusBadGateway == 502
StatusServiceUnavailable == 503
StatusGatewayTimeout == 504

\* The statuses the modelled server answers with: successes, a retryable
\* one on each side of the success threshold (202 and 503), a redirect and
\* a permanent failure.
Statuses ==
    { StatusOK, StatusCreated, StatusAccepted, StatusNoContent,
      StatusFound, StatusTeapot, StatusServiceUnavailable }

\* A body of n bytes; the bytes are pairwise distinct so that a view that
\* starts at a later offset is a different sequence.
Bytes(n) == [i \in 1..n |-> i]

BodyContents == { Bytes(n) : n \in 0..MaxBodyLen }

\* ------------------------------------------------------------------ values
\* *http.Response; id = 0 is the nil pointer, id = k the response of send k.
NilResp == [id |-> 0, StatusCode |-> 0, Header |-> 0, Body |-> <<>>]

\* The header map of a response, identified by the Content-Length the
\* server announced for the body it wrote.
HeaderOf(b) == Len(b) + 1

\* *bytes.Buffer; present = FALSE is the nil pointer.  off is the read
\* offset of the buffer: Bytes() returns the unread portion buf[off:].
NilBuffer == [present |-> FALSE, buf |-> <<>>, off |-> 0]

\* req.Body: "none" (nil), "orig" (the caller's stream), "buffer" (an alias
\* of the buffered copy, io.NopCloser(body)) or "reader" (a bytes.Reader
\* over data, at position pos).
NilBody == [kind |-> "none", data |-> <<>>, pos |-> 0]

\* Errors returned by Client.do: kind and the number formatted into it.
NoErr == [kind |-> "nil", code |-> 0]
ErrMaxRetriesExceeded(n) == [kind |-> "ErrMaxRetriesExceeded", code |-> n]
ErrRequestFailed(s) == [kind |-> "ErrRequestFailed", code |-> s]
CtxErr(cause) == [kind |-> cause, code |-> 0]
WrappedErr(e) == [kind |-> e, code |-> 0]

\* The (response, error) pair Client.do returns; resp.Status = 0 is nil.
NilResponse == [Status |-> 0, Header |-> 0, Body |-> <<>>]
NoResult == [resp |-> NilResponse, err |-> NoErr]

\* Where a call is when its context is cancelled: position and attempt.
NotCancelled == [pc |-> "never", attempt |-> 0]

VARIABLES
    MaxRetries,   \* c.retryPolicy.MaxRetries
    origBody,     \* the caller's request body: [present, data]
    ctxErr,       \* req.Context().Err(): "nil", "Canceled", "DeadlineExceeded"
    pc,           \* position of the call inside Client.do
    attempt,      \* local attempt
    resp,         \* local resp
    err,          \* local err: "nil", "transport", "drain", "close", "read"
    body,         \* local body (*bytes.Buffer)
    reqBody,      \* req.Body
    result,       \* what the call returned
    sent,         \* per send: view, the body bytes the transport can read from
                  \* req.Body, and before, how many body bytes earlier sends
                  \* of the call had consumed
    consumed,     \* body bytes the transport has consumed so far in the call
    outcomes,     \* per send: status received, or 0 for a transport error
    bodies,       \* per send: drains and closes of the response body
    waits,        \* attempts Wait was called with
    copyFailed,   \* copying the final body into the returned buffer failed
    cancelSeen,   \* sends performed when the call observed cancellation, else -1
    cancelledAt,  \* where the call was when the context was cancelled
    asked,        \* the arguments of each evaluation of retryPolicy.IsRetryable
    retryableCall, \* one evaluation of DefaultIsRetryable: [pc, resp, err, out]
    waitCall,     \* one call of RetryPolicy.Wait
    parseCall,    \* one call of endpoint.Parse
    calls,        \* the Client.do calls in progress on one shared Client
    newClientCall, \* one call of NewClient: [pc, given, cfg, client, err]
    httpCall      \* one call of Do on the http.Client built by xhttp.NewClient

\* The state of one Client.do call.
doVars == << MaxRetries, origBody, ctxErr, pc, attempt, resp, err, body, reqBody,
             result, sent, consumed, outcomes, bodies, waits, copyFailed, cancelSeen,
             cancelledAt, asked >>

\* The evaluations of the package's other functions, each studied under a
\* specification of its own.
probes == << retryableCall, waitCall, parseCall, calls, newClientCall, httpCall >>

vars == << doVars, probes >>

CtxDone == ctxErr # "nil"

\* -------------------------------------------------- internal/xhttp/retry.go
RetryableStatuses ==
    { StatusAccepted, StatusRequestTimeout, StatusTooManyRequests,
      StatusBadGateway, StatusServiceUnavailable, StatusGatewayTimeout }

\* The predicate of the client's tests, which retries every server error,
\* in place of the default's list.
DefaultIsRetryableServerErrors(r, e) ==
    IF e # "nil" THEN TRUE
    ELSE IF r.id = 0 THEN FALSE
    ELSE r.StatusCode >= 500

DefaultIsRetryable(r, e) ==
    IF e # "nil" THEN TRUE
    ELSE IF r.id = 0 THEN FALSE
    ELSE r.StatusCode \in RetryableStatuses

\* Wait, lines 61-66: the select returns the context's error when the
\* context is done before the (positive) jittered delay elapses, else nil.
Wait(ctx) == IF ctx # "nil" THEN ctx ELSE "nil"

\* ----------------------------------------------- internal/xhttp/response.go
\* What one call of DrainResponseBody can return: nil, an error of the
\* copy to io.Discard, or an error of Body.Close.
DrainResults == { "nil", "drain", "close" }

\* Per-body bookkeeping of one physical response: the results of the
\* DrainResponseBody calls made on it, in order, and how many times Close
\* was called on it.
NoBodyUse == [drains |-> <<>>, closes |-> 0]

\* DrainResponseBody: the copy always runs; Close runs only when the copy
\* succeeded.
DrainResponseBody(use, d) ==
    [drains |-> Append(use.drains, d),
     closes |-> use.closes + (IF d = "drain" THEN 0 ELSE 1)]

\* The idiom without the Close that follows a failed drain.
DrainWithoutClose(use, d) == DrainResponseBody(use, d)

\* The caller's idiom, part_009 lines 237-239 and 262-264:
\*   if err = DrainResponseBody(resp); err != nil { _ = resp.Body.Close() }
DrainOrClose(use, d) ==
    LET u == DrainResponseBody(use, d)
    IN  IF d # "nil" THEN [u EXCEPT !.closes = @ + 1] ELSE u

\* ------------------------------------------------------- Client.do helpers
\* bytes.Buffer.Bytes(): the unread portion of the buffer.
BufferBytes(b) == SubSeq(b.buf, b.off + 1, Len(b.buf))

\* A view that aliases the buffer itself, so that sending consumes it.
FreshViewAlias(b) == [kind |-> "buffer", data |-> <<>>, pos |-> 0]

\* Line 228: io.NopCloser(bytes.NewReader(body.Bytes())).
FreshView(b) == [kind |-> "reader", data |-> BufferBytes(b), pos |-> 0]

\* The bytes the transport reads when it sends req.Body from where it is.
Readable(rb, b) ==
    CASE rb.kind = "reader" -> SubSeq(rb.data, rb.pos + 1, Len(rb.data))
      [] rb.kind = "buffer" -> BufferBytes(b)
      [] OTHER -> <<>>

\* A loop that admits one attempt too many.
LoopCondOffByOne(a, max) == a <= max + 1

\* Line 226: the loop condition.
LoopCond(a, max) == a <= max

\* Line 232 with the operands of || exchanged: the predicate is evaluated
\* before the error is looked at.
PredicateArgsPredicateFirst(r, e) == << [resp |-> r.id, err |-> e] >>

\* Line 232, err != nil || !IsRetryable(resp, err): the arguments with
\* which the predicate is evaluated, none when err is non-nil; a response
\* is recorded by its id, 0 for nil.
PredicateArgs(r, e) ==
    IF e # "nil" THEN << >> ELSE << [resp |-> r.id, err |-> e] >>

\* Leaving the loop on a transport error only.
BreakLoopOnErrorOnly(r, e) == e # "nil"

\* Line 232: leave the loop.
BreakLoop(r, e) == e # "nil" \/ ~DefaultIsRetryable(r, e)

\* A threshold that counts 204 itself as a failure.
StatusFailedFromNoContent(s) == s >= StatusNoContent

\* Line 267: the final status is a failure.
StatusFailed(s) == s > StatusNoContent

\* The check without its attempt-counter half.
RetriesExhaustedAnyAttempt(r, a, max) == r.id = 0

\* Line 248: no response and the attempt counter reached the maximum.
RetriesExhausted(r, a, max) == r.id = 0 /\ a >= max

\* A Response built before the body was copied into the buffer.
NewResponseNoBody(r, bytes) == [Status |-> r.StatusCode, Header |-> r.Header, Body |-> <<>>]

\* Lines 284-288.
NewResponse(r, bytes) == [Status |-> r.StatusCode, Header |-> r.Header, Body |-> bytes]

\* A return that hands back the function's own err variable while it is nil.
FailWithNilError(e) == [resp |-> NilResponse, err |-> NoErr]

\* Every error return of Client.do: a nil Response and the error.
Fail(e) == [resp |-> NilResponse, err |-> e]

\* ---------------------------------------------- evaluations at rest
\* No evaluation of DefaultIsRetryable is in progress.
NoRetryableCall == [pc |-> "idle", resp |-> NilResp, err |-> "nil", out |-> FALSE]

\* Wait is not being called.
NoWaitCall == [pc |-> "idle"]

\* Parse is not being called.
NoParseCall == [pc |-> "idle"]

\* No concurrent calls are in progress.
NoCalls == << >>

\* NewClient is not being called.
NoNewClientCall == [pc |-> "idle"]

\* The http.Client is not being called.
NoHttpCall == [pc |-> "idle"]

ProbesIdle ==
    /\ retryableCall = NoRetryableCall
    /\ waitCall = NoWaitCall
    /\ parseCall = NoParseCall
    /\ calls = NoCalls
    /\ newClientCall = NoNewClientCall
    /\ httpCall = NoHttpCall

\* -------------------------------------------------------------------- Init
\* A client built by NewClient has MaxRetries >= 1: lines 84-86 replace a
\* configured value of 0 or below by the (positive) default.
Init ==
    /\ MaxRetries \in 1..MaxR
    /\ origBody \in { [present |-> FALSE, data |-> <<>>] }
                    \cup { [present |-> TRUE, data |-> d] : d \in BodyContents }
    /\ ctxErr = "nil"
    /\ pc = "start"
    /\ attempt = 0
    /\ resp = NilResp
    /\ err = "nil"
    /\ body = NilBuffer
    /\ reqBody = IF origBody.present
                 THEN [kind |-> "orig", data |-> origBody.data, pos |-> 0]
                 ELSE NilBody
    /\ result = NoResult
    /\ sent = <<>>
    /\ consumed = 0
    /\ outcomes = <<>>
    /\ bodies = <<>>
    /\ waits = <<>>
    /\ copyFailed = FALSE
    /\ cancelSeen = -1
    /\ cancelledAt = NotCancelled
    /\ asked = << >>
    /\ ProbesIdle

\* A call that does not buffer the body and sends the original stream.
BufferBodySkipped ==
    /\ pc = "start"
    /\ pc' = "loop"
    /\ UNCHANGED << body, reqBody, err, result >>
    /\ UNCHANGED << MaxRetries, origBody, ctxErr, attempt, resp, sent, outcomes,
                    bodies, waits, copyFailed, cancelSeen,
                    cancelledAt, consumed >>
    /\ UNCHANGED << asked, probes >>

\* ----------------------------------------------------------------- actions
\* Lines 211-224: buffer the request body.
BufferBody ==
    /\ pc = "start"
    /\ IF ~origBody.present
       THEN /\ pc' = "loop"
            /\ UNCHANGED << body, reqBody, err, result >>
       ELSE \E ok \in BOOLEAN :
              IF ok
              THEN /\ body' = [present |-> TRUE, buf |-> origBody.data, off |-> 0]
                   /\ reqBody' = [kind |-> "buffer", data |-> <<>>, pos |-> 0]
                   /\ pc' = "loop"
                   /\ UNCHANGED << err, result >>
              ELSE /\ err' = "read"
                   /\ result' = Fail(WrappedErr("read"))
                   /\ pc' = "done"
                   /\ UNCHANGED << body, reqBody >>
    /\ UNCHANGED << MaxRetries, origBody, ctxErr, attempt, resp, sent, outcomes,
                    bodies, waits, copyFailed, cancelSeen,
                    cancelledAt, consumed >>
    /\ UNCHANGED << asked, probes >>

\* Lines 226-231: the loop head; installs the body view and starts the send.
StartAttempt ==
    /\ pc = "loop"
    /\ IF LoopCond(attempt, MaxRetries)
       THEN /\ reqBody' = IF body.present THEN FreshView(body) ELSE reqBody
            /\ sent' = Append(sent, [view |-> Readable(reqBody', body),
                                     before |-> consumed])
            /\ pc' = "sending"
       ELSE /\ pc' = "post"
            /\ UNCHANGED << reqBody, sent >>
    /\ UNCHANGED << MaxRetries, origBody, ctxErr, attempt, resp, err, body, result,
                    outcomes, bodies, waits, copyFailed, cancelSeen,
                    cancelledAt, consumed >>
    /\ UNCHANGED << asked, probes >>

\* The transport read n bytes of req.Body while sending.
Consume(rb, n) == IF rb.kind = "reader" THEN [rb EXCEPT !.pos = @ + n] ELSE rb

ConsumeBuffer(rb, b, n) == IF rb.kind = "buffer" THEN [b EXCEPT !.off = @ + n] ELSE b

\* Lines 231-240: httpClient.Do returns; break, or drain and go to wait.
\* A send that is in flight when the context is done is aborted by the
\* transport and returns no response; a response that wins the race with a
\* cancellation is a cancellation that follows the return of the send.
DoReturns ==
    /\ pc = "sending"
    /\ \E n \in { 0, Len(Readable(reqBody, body)) } :
         /\ reqBody' = Consume(reqBody, n)
         /\ body' = ConsumeBuffer(reqBody, body, n)
         /\ consumed' = IF n > 0 THEN Len(origBody.data) ELSE consumed
    /\ \/ \* the send failed: no response
          /\ resp' = NilResp
          /\ err' = "transport"
          /\ outcomes' = Append(outcomes, 0)
          /\ bodies' = Append(bodies, NoBodyUse)
          /\ cancelSeen' = IF CtxDone THEN Len(sent) ELSE cancelSeen
          /\ pc' = "post"
          /\ asked' = asked \o PredicateArgs(NilResp, "transport")
          /\ UNCHANGED waits
       \/ \* a response arrived
          /\ ~CtxDone
          /\ \E s \in Statuses, b \in BodyContents :
               LET r == [id |-> Len(sent), StatusCode |-> s,
                         Header |-> HeaderOf(b), Body |-> b]
               IN  /\ resp' = r
                   /\ outcomes' = Append(outcomes, s)
                   /\ asked' = asked \o PredicateArgs(r, "nil")
                   /\ IF BreakLoop(r, "nil")
                      THEN /\ err' = "nil"
                           /\ bodies' = Append(bodies, NoBodyUse)
                           /\ pc' = "post"
                           /\ UNCHANGED waits
                      ELSE \E d \in DrainResults :
                             /\ err' = d
                             /\ bodies' = Append(bodies, DrainOrClose(NoBodyUse, d))
                             /\ waits' = Append(waits, attempt)
                             /\ pc' = "waiting"
          /\ UNCHANGED cancelSeen
    /\ UNCHANGED << MaxRetries, origBody, ctxErr, attempt, result, sent, copyFailed,
                    cancelledAt >>
    /\ UNCHANGED probes

\* The loop going on to the next attempt whatever Wait returned.
WaitReturnsIgnoringError ==
    /\ pc = "waiting"
    /\ attempt' = attempt + 1
    /\ pc' = "loop"
    /\ UNCHANGED << MaxRetries, origBody, ctxErr, resp, err, body, reqBody, sent,
                    outcomes, bodies, waits, copyFailed, result, cancelSeen,
                    cancelledAt, consumed >>
    /\ UNCHANGED << asked, probes >>

\* Lines 242-246: Wait returns; abort on its error, else next attempt.
WaitReturns ==
    /\ pc = "waiting"
    /\ IF Wait(ctxErr) # "nil"
       THEN /\ result' = Fail(CtxErr(Wait(ctxErr)))
            /\ cancelSeen' = Len(sent)
            /\ pc' = "done"
            /\ UNCHANGED attempt
       ELSE /\ attempt' = attempt + 1
            /\ pc' = "loop"
            /\ UNCHANGED << result, cancelSeen >>
    /\ UNCHANGED << MaxRetries, origBody, ctxErr, resp, err, body, reqBody, sent,
                    outcomes, bodies, waits, copyFailed,
                    cancelledAt, consumed >>
    /\ UNCHANGED << asked, probes >>

\* Lines 248-288: classify the outcome of the loop and return.
Return ==
    /\ pc = "post"
    /\ pc' = "done"
    /\ IF RetriesExhausted(resp, attempt, MaxRetries)
       THEN /\ result' = Fail(ErrMaxRetriesExceeded(attempt))
            /\ UNCHANGED << bodies, copyFailed, err >>
       ELSE IF err # "nil"
       THEN /\ result' = Fail(IF CtxDone THEN CtxErr(ctxErr) ELSE WrappedErr(err))
            /\ UNCHANGED << bodies, copyFailed, err >>
       ELSE LET closed == bodies[resp.id].closes > 0
            IN  \E copyOK \in BOOLEAN, d \in DrainResults :
                  \* a closed body cannot be read, unless it is the empty
                  \* http.NoBody; a closed body cannot be drained either
                  /\ closed /\ resp.Body # <<>> => ~copyOK
                  /\ closed /\ resp.Body # <<>> => d = "drain"
                  /\ StatusFailed(resp.StatusCode) => copyOK
                  \* the deferred drain, lines 261-265
                  /\ bodies' = [bodies EXCEPT ![resp.id] = DrainOrClose(@, d)]
                  /\ err' = d
                  /\ IF StatusFailed(resp.StatusCode)
                     THEN /\ result' = Fail(ErrRequestFailed(resp.StatusCode))
                          /\ UNCHANGED copyFailed
                     ELSE IF ~copyOK
                     THEN /\ result' = Fail(WrappedErr("copy"))
                          /\ copyFailed' = TRUE
                     ELSE /\ result' = [resp |-> NewResponse(resp, resp.Body), err |-> NoErr]
                          /\ UNCHANGED copyFailed
    /\ UNCHANGED << MaxRetries, origBody, ctxErr, attempt, resp, body, reqBody, sent,
                    outcomes, waits, cancelSeen,
                    cancelledAt, consumed >>
    /\ UNCHANGED << asked, probes >>

\* The caller cancels the context, or its deadline passes.
Cancel ==
    /\ pc # "done"
    /\ ctxErr = "nil"
    /\ ctxErr' \in { "Canceled", "DeadlineExceeded" }
    /\ cancelledAt' = [pc |-> pc, attempt |-> attempt]
    /\ UNCHANGED << MaxRetries, origBody, pc, attempt, resp, err, body, reqBody,
                    result, sent, outcomes, bodies, waits, copyFailed, cancelSeen, consumed >>
    /\ UNCHANGED << asked, probes >>

Next ==
    \/ BufferBody
    \/ StartAttempt
    \/ DoReturns
    \/ WaitReturns
    \/ Return
    \/ Cancel

Spec == Init /\ [][Next]_vars

\* ------------------------------------------------------------------ claims
Done == pc = "done"

Last(s) == s[Len(s)]

\* Every send so far was answered, and with a retryable status.
AllAnsweredRetryable ==
    /\ Len(outcomes) >= 1
    /\ \A i \in 1..Len(outcomes) : outcomes[i] \in RetryableStatuses

\* No drain inside the retry loop reported an error: each body drained in
\* the loop has "nil" as its first drain result.
LoopDrainsClean ==
    \A i \in 1..Len(bodies) :
        bodies[i].drains # <<>> => bodies[i].drains[1] = "nil"

\* C1: with MaxRetries = R >= 1 and a server that answers every send with a
\* retryable status of the default policy (202 included), a call that is
\* never cancelled and whose drains succeed performs exactly R+1 sends and
\* returns ErrRequestFailed carrying the status of the last response.
C1_ExhaustedReturnsRequestFailed ==
    (Done /\ ~CtxDone /\ AllAnsweredRetryable /\ LoopDrainsClean)
        => /\ Len(sent) = MaxRetries + 1
           /\ result = Fail(ErrRequestFailed(Last(outcomes)))

\* C2: in every execution of Client.do the number of sends never exceeds
\* MaxRetries + 1.
C2_SendsBounded == Len(sent) <= MaxRetries + 1

\* C2 witness: a finished call that used all MaxRetries + 1 sends and whose
\* last send failed in the transport.
C2_Witness ==
    Done /\ Len(sent) = MaxRetries + 1 /\ Last(outcomes) = 0

\* C3: a transport error on an attempt below MaxRetries is retried (a wait
\* and another send follow), and ErrMaxRetriesExceeded is returned only
\* after MaxRetries + 1 consecutive transport failures.
C3_TransportErrorRetried ==
    (Done /\ ~CtxDone)
        => /\ \A i \in 1..Len(outcomes) :
                (outcomes[i] = 0 /\ i - 1 < MaxRetries)
                    => (Len(sent) > i /\ Len(waits) >= i)
           /\ result.err.kind = "ErrMaxRetriesExceeded"
                => /\ Len(sent) = MaxRetries + 1
                   /\ \A i \in 1..Len(outcomes) : outcomes[i] = 0

\* A received status that the default policy does not retry.
NonRetryable(s) == s # 0 /\ s \notin RetryableStatuses

\* The call returned a Response and a nil error.
Succeeded == result.err = NoErr /\ result.resp # NilResponse

\* C4 as stated: a non-retryable status s on the first attempt gives one
\* send, no wait, success if and only if s <= 204, and ErrRequestFailed
\* carrying s when s >= 205.
C4_FirstNonRetryableAsStated ==
    (Done /\ Len(outcomes) >= 1 /\ NonRetryable(outcomes[1]))
        => /\ Len(sent) = 1
           /\ waits = <<>>
           /\ Succeeded <=> outcomes[1] <= StatusNoContent
           /\ outcomes[1] > StatusNoContent
                => result = Fail(ErrRequestFailed(outcomes[1]))

\* C4 amended: a non-retryable status s on the first attempt gives one send
\* and no wait; the call succeeds if and only if s <= 204 and the copy of
\* the response body succeeds (a failed copy returns the copy error), and
\* returns ErrRequestFailed carrying s when s >= 205.
C4_FirstNonRetryable ==
    (Done /\ Len(outcomes) >= 1 /\ NonRetryable(outcomes[1]))
        => /\ Len(sent) = 1
           /\ waits = <<>>
           /\ Succeeded <=> (outcomes[1] <= StatusNoContent /\ ~copyFailed)
           /\ (outcomes[1] <= StatusNoContent /\ copyFailed)
                => result = Fail(WrappedErr("copy"))
           /\ outcomes[1] > StatusNoContent
                => result = Fail(ErrRequestFailed(outcomes[1]))

\* C4 witness: a 418 on the first attempt, reported as ErrRequestFailed.
C4_Witness ==
    /\ Done
    /\ outcomes = << StatusTeapot >>
    /\ result = Fail(ErrRequestFailed(StatusTeapot))

\* The last send was answered with a success status that is not retried.
FinalIsPlainSuccess ==
    /\ Len(outcomes) >= 1
    /\ NonRetryable(Last(outcomes))
    /\ Last(outcomes) <= StatusNoContent

\* C5 as stated: when the final response has a non-retryable success
\* status the call returns that status, the response's header map and the
\* body bytes the server wrote, with a nil error.
C5_SuccessAsStated ==
    (Done /\ FinalIsPlainSuccess)
        => /\ result.err = NoErr
           /\ result.resp = [Status |-> Last(outcomes), Header |-> resp.Header,
                             Body |-> resp.Body]

\* C5 amended: when the final response has a non-retryable success status
\* and the copy of its body succeeds, the call returns that status, the
\* response's header map and the body bytes the server wrote, with a nil
\* error; when the copy fails it returns no Response and the copy error.
C5_Success ==
    (Done /\ FinalIsPlainSuccess)
        => IF copyFailed
           THEN result = Fail(WrappedErr("copy"))
           ELSE /\ result.err = NoErr
                /\ result.resp = [Status |-> Last(outcomes),
                                  Header |-> HeaderOf(resp.Body),
                                  Body |-> resp.Body]
                /\ resp.id = Len(sent)

\* C5 witness: a 201 with a non-empty body returned to the caller.
C5_Witness ==
    /\ Done
    /\ Succeeded
    /\ result.resp.Status = StatusCreated
    /\ result.resp.Body # <<>>

\* The first k sends were answered with retryable statuses and send k+1
\* with a success status that is not retried.
RetriedThenSuccess(k) ==
    /\ Len(outcomes) >= k + 1
    /\ \A i \in 1..k : outcomes[i] \in RetryableStatuses
    /\ NonRetryable(outcomes[k + 1])
    /\ outcomes[k + 1] <= StatusNoContent

\* C6 as stated: k <= MaxRetries retryable answers followed by a
\* non-retryable success give exactly k+1 sends and the successful response
\* of send k+1.
C6_RetryThenSuccessAsStated ==
    \A k \in 0..MaxR :
        (Done /\ RetriedThenSuccess(k))
            => /\ Len(sent) = k + 1
               /\ Succeeded
               /\ result.resp.Status = outcomes[k + 1]

\* C6 amended: k <= MaxRetries retryable answers followed by a
\* non-retryable success give exactly k+1 sends (send k+1 is the last one,
\* and k waits were made), and the call returns the response of send k+1
\* provided the copy of its body succeeds.
C6_RetryThenSuccess ==
    \A k \in 0..MaxR :
        RetriedThenSuccess(k)
            => /\ Len(sent) = k + 1
               /\ Len(waits) = k
               /\ k <= MaxRetries
               /\ (Done /\ ~copyFailed)
                    => /\ Succeeded
                       /\ result.resp = NewResponse(resp, resp.Body)
                       /\ resp.id = k + 1
                       /\ result.resp.Status = outcomes[k + 1]

\* C6 witness: MaxRetries retryable answers, then a success on the last
\* permitted send, returned to the caller.
C6_Witness ==
    /\ Done
    /\ RetriedThenSuccess(MaxRetries)
    /\ Succeeded

\* C7: for a request with a non-empty body, every send of the call can read
\* the whole original body from its first byte, however much of it earlier
\* sends consumed.
C7_BodyReplayed ==
    (origBody.present /\ origBody.data # <<>>)
        => \A i \in 1..Len(sent) : sent[i].view = origBody.data

\* C7 witness: a second send started after an earlier send had consumed
\* the body.
C7_Witness ==
    /\ origBody.data # <<>>
    /\ Len(sent) >= 2
    /\ sent[2].before = Len(origBody.data)
    /\ sent[2].view = origBody.data

\* C8: when the context is cancelled while the call is in a send or in a
\* backoff wait, at any attempt including attempt = MaxRetries, the call
\* returns the context's error and no other kind of error.
C8_CancellationSurfaced ==
    (Done /\ cancelledAt.pc \in { "sending", "waiting" })
        => result = Fail(CtxErr(ctxErr))

\* The call observed cancellation: Wait returned the context's error, or a
\* send failed with the context done.
CancelObserved == cancelSeen # -1

\* C9: once the call has observed cancellation it performs no further
\* send, and when it returns every response body received earlier has been
\* drained and closed (DrainResponseBody ran on it and Close was called).
C9_NoSendAfterCancel ==
    CancelObserved
        => /\ Len(sent) = cancelSeen
           /\ Done
                => \A i \in 1..Len(outcomes) :
                     outcomes[i] # 0
                        => (bodies[i].drains # <<>> /\ bodies[i].closes >= 1)

\* C9 witness: a call cancelled in a wait after a response whose drain
\* failed has returned.
C9_Witness ==
    /\ Done
    /\ CancelObserved
    /\ cancelledAt.pc = "waiting"
    /\ Len(outcomes) >= 1
    /\ bodies[Len(bodies)].drains = << "drain" >>

C11_ResponseXorError ==
    Done => \/ (result.resp # NilResponse /\ result.err = NoErr)
            \/ (result.resp = NilResponse /\ result.err # NoErr)

\* C11 witness: a call that held a response when it returned has returned
\* an error and no Response.
C11_Witness ==
    /\ Done
    /\ resp # NilResp
    /\ result.resp = NilResponse
    /\ result.err.kind = "ErrRequestFailed"

\* C12: on every path through Client.do each response received is drained
\* and closed exactly once (DrainResponseBody runs once on it and Close is
\* called once), the last response of an exhausted call included.  Stated
\* for calls that are never cancelled and in which the first drain of every
\* body succeeds.
C12_DrainedClosedOnce ==
    (Done /\ ~CtxDone /\ LoopDrainsClean)
        => \A i \in 1..Len(outcomes) :
             outcomes[i] # 0
                => (Len(bodies[i].drains) = 1 /\ bodies[i].closes = 1)

\* C13: Client.do returns ErrMaxRetriesExceeded only when no attempt of the
\* call obtained a response and the attempt counter reached MaxRetries.
C13_MaxRetriesOnlyWithoutResponse ==
    (Done /\ result.err.kind = "ErrMaxRetriesExceeded")
        => /\ \A i \in 1..Len(outcomes) : outcomes[i] = 0
           /\ attempt >= MaxRetries

\* A step of the call starts a send.
StartsSend == Len(sent') = Len(sent) + 1

\* C17: the attempts of one call are strictly sequential.  A send that is
\* not the first starts only when every earlier send has returned, the
\* response of each has been drained and closed (a send without a response
\* has had its error classified and ends the loop), and Wait was called for
\* the previous attempt; and the attempt counter that admits the next send
\* advances only by a Wait that returned nil, that is with the context not
\* done.
C17_AttemptsSequential ==
    [][ /\ StartsSend
            => /\ Len(sent) = attempt
               /\ Len(outcomes) = Len(sent)
               /\ Len(waits) = attempt
               /\ \A i \in 1..Len(sent) :
                    /\ outcomes[i] # 0
                    /\ bodies[i].drains # <<>>
                    /\ bodies[i].closes >= 1
                    /\ waits[i] = i - 1
        /\ attempt' # attempt
            => /\ pc = "waiting"
               /\ Wait(ctxErr) = "nil"
               /\ attempt' = attempt + 1
               /\ waits[Len(waits)] = attempt ]_vars

\* C17 witness: the third send is in flight after a response whose drain
\* failed and a response that was drained cleanly.
C17_Witness ==
    /\ pc = "sending"
    /\ Len(sent) = 3
    /\ bodies[1].drains = << "drain" >>
    /\ bodies[2].drains = << "nil" >>

\* ====================================================== DefaultIsRetryable
\* The single-call variables while another function is studied.
DoAtRest ==
    /\ origBody = [present |-> FALSE, data |-> <<>>]
    /\ ctxErr = "nil"
    /\ pc = "idle"
    /\ attempt = 0
    /\ resp = NilResp
    /\ err = "nil"
    /\ body = NilBuffer
    /\ reqBody = NilBody
    /\ result = NoResult
    /\ sent = <<>>
    /\ consumed = 0
    /\ outcomes = <<>>
    /\ bodies = <<>>
    /\ waits = <<>>
    /\ copyFailed = FALSE
    /\ cancelSeen = -1
    /\ cancelledAt = NotCancelled
    /\ asked = << >>

DoIdle ==
    /\ MaxRetries = 1
    /\ DoAtRest

\* The status codes a response handed to the predicate can carry.
AnyStatus == MinStatus..MaxStatus

\* The predicate is called with any pair: a nil or non-nil response and a
\* nil or non-nil error.
InitRetryable ==
    /\ DoIdle
    /\ waitCall = NoWaitCall
    /\ parseCall = NoParseCall
    /\ calls = NoCalls
    /\ \E r \in { NilResp } \cup { [id |-> 1, StatusCode |-> s, Header |-> 1,
                                   Body |-> <<>>] : s \in AnyStatus },
          e \in { "nil", "transport" } :
         retryableCall = [pc |-> "call", resp |-> r, err |-> e, out |-> FALSE]
    /\ newClientCall = NoNewClientCall
    /\ httpCall = NoHttpCall

\* retry.go lines 74-94, one evaluation.
ApplyIsRetryable ==
    /\ retryableCall.pc = "call"
    /\ retryableCall' =
         [retryableCall EXCEPT !.pc = "returned",
                               !.out = DefaultIsRetryable(retryableCall.resp,
                                                          retryableCall.err)]
    /\ UNCHANGED << doVars, waitCall, parseCall, calls, newClientCall, httpCall >>

NextRetryable == ApplyIsRetryable

SpecRetryable == InitRetryable /\ [][NextRetryable]_vars

\* C14: DefaultIsRetryable returns true exactly when the error is non-nil,
\* or the response is non-nil and its status is one of 202, 408, 429, 502,
\* 503, 504; so false for a nil response with a nil error and false for
\* every other status, 200, 400, 404 and 500 among them.
C14_RetryableExactly ==
    retryableCall.pc = "returned"
        => retryableCall.out =
             (\/ retryableCall.err # "nil"
              \/ /\ retryableCall.resp # NilResp
                 /\ retryableCall.resp.StatusCode
                        \in { 202, 408, 429, 502, 503, 504 })

\* C14 witness: the predicate has answered true for a 202 without error,
\* which is the status below 204 among the retryable ones.
C14_Witness ==
    /\ retryableCall.pc = "returned"
    /\ retryableCall.err = "nil"
    /\ retryableCall.resp.StatusCode = 202
    /\ retryableCall.out = TRUE

\* ======================================================== RetryPolicy.Wait
MaxDuration == 2 ^ (DurationBits - 1) - 1

MinDuration == -(2 ^ (DurationBits - 1))

\* time.Duration(x) for a float64 x: an in-range value is truncated (the
\* callers pass whole numbers); for a value the type cannot represent the
\* result depends on the implementation, the smallest Duration on one
\* build and the largest on another.
ToDuration(x, build) ==
    IF x >= MinDuration /\ x <= MaxDuration THEN x
    ELSE IF build = "min" THEN MinDuration ELSE MaxDuration

\* Conversion to an integer type truncates toward zero.
Trunc(n, d) == IF n >= 0 THEN n \div d ELSE -((-n) \div d)

\* Lines 51-55: the delay before jitter, as a float64.
WaitTime(p, a, build) ==
    LET waitTime == p.MinRetryDelay * BackoffFactor ^ a
    IN  IF ToDuration(waitTime, build) > p.MaxRetryDelay
        THEN p.MaxRetryDelay
        ELSE waitTime

\* Lines 57-59: waitTime + (r / JitterGrain) * _jitterFactor * waitTime,
\* converted to a Duration.
WaitTimeWithJitter(w, r, build) ==
    ToDuration(Trunc(w * (JitterFactorInverse * JitterGrain + r),
                     JitterFactorInverse * JitterGrain),
               build)

\* Lines 61-66: the cases of the select that can proceed; one of them is
\* chosen when several can.
SelectReady(ctx, fired) ==
    (IF ctx # "nil" THEN { ctx } ELSE {}) \cup (IF fired THEN { "nil" } ELSE {})

\* The policies the repository builds: NewClient's (part_009 lines 97-98)
\* and the one of TestRetryPolicy_Wait with a 2 s ceiling.
Policies ==
    { [MinRetryDelay |-> DefaultMinRetryDelay, MaxRetryDelay |-> DefaultMaxRetryDelay],
      [MinRetryDelay |-> 1 * Second, MaxRetryDelay |-> 2 * Second] }

\* Wait is called with any attempt and a context that is live or already
\* done, by a program of either build.
InitWait ==
    /\ DoIdle
    /\ retryableCall = NoRetryableCall
    /\ parseCall = NoParseCall
    /\ calls = NoCalls
    /\ \E p \in Policies, a \in 0..MaxAttempt,
          c \in { "nil", "Canceled", "DeadlineExceeded" },
          b \in { "min", "max" } :
         waitCall = [pc |-> "call", policy |-> p, attempt |-> a, ctx |-> c,
                     build |-> b, waitTime |-> 0, delay |-> 0,
                     fired |-> FALSE, doneFirst |-> FALSE, out |-> "none"]
    /\ newClientCall = NoNewClientCall
    /\ httpCall = NoHttpCall

\* Lines 51-66 up to the select: compute the delay, arm the timer (a timer
\* armed with a delay of zero or less has fired at once) and return at
\* once if a case can proceed, else park.
WaitArm ==
    /\ waitCall.pc = "call"
    /\ \E r \in (-JitterGrain)..(JitterGrain - 1) :
         LET w == WaitTime(waitCall.policy, waitCall.attempt, waitCall.build)
             d == WaitTimeWithJitter(w, r, waitCall.build)
             ready == SelectReady(waitCall.ctx, d <= 0)
         IN  \/ /\ ready = {}
                /\ waitCall' = [waitCall EXCEPT !.pc = "parked", !.waitTime = w,
                                                !.delay = d]
             \/ \E o \in ready :
                  waitCall' = [waitCall EXCEPT !.pc = "returned", !.waitTime = w,
                                               !.delay = d, !.fired = (d <= 0),
                                               !.doneFirst = (waitCall.ctx # "nil"),
                                               !.out = o]
    /\ UNCHANGED << doVars, retryableCall, parseCall, calls, newClientCall, httpCall >>

\* The context becomes done while Wait is parked in the select: the
\* context's case wakes it.
WaitCtxDone ==
    /\ waitCall.pc = "parked"
    /\ \E c \in { "Canceled", "DeadlineExceeded" } :
         waitCall' = [waitCall EXCEPT !.pc = "returned", !.ctx = c,
                                      !.doneFirst = TRUE,
                                      !.out = CHOOSE o \in SelectReady(c, FALSE) : TRUE]
    /\ UNCHANGED << doVars, retryableCall, parseCall, calls, newClientCall, httpCall >>

\* The delay elapses while Wait is parked in the select: the timer's case
\* wakes it.
WaitTimerFires ==
    /\ waitCall.pc = "parked"
    /\ waitCall' = [waitCall EXCEPT !.pc = "returned", !.fired = TRUE,
                                    !.out = CHOOSE o \in SelectReady("nil", TRUE) : TRUE]
    /\ UNCHANGED << doVars, retryableCall, parseCall, calls, newClientCall, httpCall >>

NextWait ==
    \/ WaitArm
    \/ WaitCtxDone
    \/ WaitTimerFires

SpecWait == InitWait /\ [][NextWait]_vars

Abs(x) == IF x >= 0 THEN x ELSE -x

Smaller(x, y) == IF x <= y THEN x ELSE y

\* Wait has computed its delay.
WaitComputed == waitCall.pc \in { "parked", "returned" }

\* C15: for every attempt >= 0, those for which MinRetryDelay * 2^attempt
\* leaves the range of Duration included, the delay before jitter equals
\* min(MinRetryDelay * 2^attempt, MaxRetryDelay) and the delay waited lies
\* within 10% of that value.
C15_DelayClamped ==
    WaitComputed
        => LET expected == Smaller(waitCall.policy.MinRetryDelay * 2 ^ waitCall.attempt,
                                   waitCall.policy.MaxRetryDelay)
           IN  /\ waitCall.waitTime = expected
               /\ 10 * Abs(waitCall.delay - expected) <= expected

\* C16: Wait returns nil only if the jittered delay elapsed; if the context
\* is done before the delay elapses, Wait returns the context's error.
C16_WaitReturn ==
    waitCall.pc = "returned"
        => /\ waitCall.out = "nil" => waitCall.fired
           /\ waitCall.doneFirst => waitCall.out = waitCall.ctx

\* ========================================================== endpoint.Parse
\* Strings are sequences of one-character strings.
Http == << "h", "t", "t", "p" >>

Https == Http \o << "s" >>

Ftp == << "f", "t", "p" >>

UpperHttps == << "H", "T", "T", "P", "S" >>

ExampleCom == << "e", "x", "a", "m", "p", "l", "e", ".", "c", "o", "m" >>

Port8080 == << "8", "0", "8", "0" >>

PathTest == << "/", "t", "e", "s", "t" >>

\* endpoint.go lines 18-20.
Slash == << "/" >>

ColonSlashSlash == << ":", "/", "/" >>

Colon == << ":" >>

Digits == { "0", "1", "2", "3", "4", "5", "6", "7", "8", "9" }

\* ASCII control characters, which url.Parse rejects anywhere in its input.
ControlChars == { "\n" }

\* Characters url.Parse rejects in a host name and URL.String escapes in a
\* path.
EscapedChars == { " " }

\* strings.Index and strings.LastIndex, 1-based; 0 when absent.
IndexOf(s, c) ==
    IF \E i \in 1..Len(s) : s[i] = c
    THEN CHOOSE i \in 1..Len(s) : s[i] = c /\ \A j \in 1..(i - 1) : s[j] # c
    ELSE 0

LastIndexOf(s, c) ==
    IF \E i \in 1..Len(s) : s[i] = c
    THEN CHOOSE i \in 1..Len(s) : s[i] = c /\ \A j \in (i + 1)..Len(s) : s[j] # c
    ELSE 0

HasPrefix(s, p) == Len(s) >= Len(p) /\ SubSeq(s, 1, Len(p)) = p

NilURL == [ok |-> FALSE, Scheme |-> << >>, Host |-> << >>, Path |-> << >>]

\* net/url.Parse on a text without '#', '?', '@', '[' and '%': the scheme
\* up to the first colon, after "//" the authority up to the next slash,
\* whose port (what follows its last colon) must be digits or empty and
\* whose characters must be legal in a host, then the path.
URLParse(text) ==
    LET colon == IndexOf(text, ":")
        rest == SubSeq(text, colon + 1, Len(text))
        afterSlashes == SubSeq(rest, 3, Len(rest))
        slash == IndexOf(afterSlashes, "/")
        authority == IF slash = 0 THEN afterSlashes
                     ELSE SubSeq(afterSlashes, 1, slash - 1)
        path == IF slash = 0 THEN << >>
                ELSE SubSeq(afterSlashes, slash, Len(afterSlashes))
        portAt == LastIndexOf(authority, ":")
        portOK == \/ portAt = 0
                  \/ \A i \in (portAt + 1)..Len(authority) : authority[i] \in Digits
        hostOK == \A i \in 1..Len(authority) : authority[i] \notin EscapedChars
    IN  IF \E i \in 1..Len(text) : text[i] \in ControlChars THEN NilURL
        ELSE IF colon = 0 \/ ~HasPrefix(rest, << "/", "/" >>) THEN NilURL
        ELSE IF ~portOK \/ ~hostOK THEN NilURL
        ELSE [ok |-> TRUE, Scheme |-> SubSeq(text, 1, colon - 1),
              Host |-> authority, Path |-> path]

\* URL.EscapedPath: a space is written %20.
RECURSIVE EscapedPath(_)
EscapedPath(p) ==
    IF p = << >> THEN << >>
    ELSE (IF Head(p) \in EscapedChars THEN << "%", "2", "0" >> ELSE << Head(p) >>)
         \o EscapedPath(Tail(p))

\* URL.String for a URL with a scheme and a host.
URLString(u) ==
    u.Scheme \o << ":" >> \o << "/", "/" >> \o u.Host
      \o (IF u.Path # << >> /\ Head(u.Path) # "/" THEN << "/" >> ELSE << >>)
      \o EscapedPath(u.Path)

\* Lines 38-55 with a colon written whatever the port.
AssembleAlwaysColon(scheme, host, port, path) ==
    scheme \o ColonSlashSlash \o host \o Colon \o port
      \o (IF path = << >> THEN Slash ELSE path)

\* Lines 38-55: the text handed to url.Parse.
Assemble(scheme, host, port, path) ==
    scheme \o ColonSlashSlash \o host
      \o (IF port # << >> THEN Colon \o port ELSE << >>)
      \o (IF path = << >> THEN Slash ELSE path)

\* Parse with the scheme checked before the missing fragments.
ParseSchemeFirst(scheme, host, port, path) ==
    IF scheme # Https /\ scheme # Http
    THEN [url |-> NilURL, err |-> "ErrInvalidScheme"]
    ELSE IF scheme = << >> \/ host = << >>
    THEN [url |-> NilURL, err |-> "ErrMissingFragment"]
    ELSE LET uri == URLParse(Assemble(scheme, host, port, path))
         IN  IF ~uri.ok THEN [url |-> NilURL, err |-> "parse"]
             ELSE [url |-> uri, err |-> "nil"]

\* endpoint.go lines 29-63.
Parse(scheme, host, port, path) ==
    IF scheme = << >> \/ host = << >>
    THEN [url |-> NilURL, err |-> "ErrMissingFragment"]
    ELSE IF scheme # Https /\ scheme # Http
    THEN [url |-> NilURL, err |-> "ErrInvalidScheme"]
    ELSE LET uri == URLParse(Assemble(scheme, host, port, path))
         IN  IF ~uri.ok THEN [url |-> NilURL, err |-> "parse"]
             ELSE [url |-> uri, err |-> "nil"]

\* The fragments Parse is called with: those of TestParse, and a scheme in
\* capitals, a host and a path with a space, a port that is not a number,
\* a path without its leading slash.
Schemes == { << >>, Http, Https, Ftp, UpperHttps }

Hosts == { << >>, ExampleCom, << "a", " ", "b" >> }

Ports == { << >>, Port8080, << "\n" >>, << "x" >> }

Paths == { << >>, Slash, PathTest, << "/", "a", " ", "b" >>, << "t" >> }

InitParse ==
    /\ DoIdle
    /\ retryableCall = NoRetryableCall
    /\ waitCall = NoWaitCall
    /\ calls = NoCalls
    /\ \E s \in Schemes, h \in Hosts, p \in Ports, q \in Paths :
         parseCall = [pc |-> "call", scheme |-> s, host |-> h, port |-> p,
                      path |-> q, out |-> [url |-> NilURL, err |-> "nil"]]
    /\ newClientCall = NoNewClientCall
    /\ httpCall = NoHttpCall

ApplyParse ==
    /\ parseCall.pc = "call"
    /\ parseCall' = [parseCall EXCEPT !.pc = "returned",
                                      !.out = Parse(parseCall.scheme, parseCall.host,
                                                    parseCall.port, parseCall.path)]
    /\ UNCHANGED << doVars, retryableCall, waitCall, calls, newClientCall, httpCall >>

NextParse == ApplyParse

SpecParse == InitParse /\ [][NextParse]_vars

\* C19: Parse returns ErrMissingFragment when scheme or host is empty,
\* whatever the scheme, returns ErrInvalidScheme when scheme is non-empty
\* (and the host too) and not exactly "http" or "https", and returns a nil
\* URL in both cases.
C19_FragmentErrors ==
    parseCall.pc = "returned"
        => /\ (parseCall.scheme = << >> \/ parseCall.host = << >>)
                => parseCall.out = [url |-> NilURL, err |-> "ErrMissingFragment"]
           /\ (/\ parseCall.scheme # << >>
               /\ parseCall.host # << >>
               /\ parseCall.scheme \notin { << "h", "t", "t", "p" >>,
                                            << "h", "t", "t", "p", "s" >> })
                => parseCall.out = [url |-> NilURL, err |-> "ErrInvalidScheme"]

\* C19 witness: Parse has answered a call with scheme ftp and no host,
\* where both checks would fail.
C19_Witness ==
    /\ parseCall.pc = "returned"
    /\ parseCall.scheme = Ftp
    /\ parseCall.host = << >>
    /\ parseCall.out.err = "ErrMissingFragment"

\* The text scheme://host[:port]path, with "/" for an empty path.
ExpectedText ==
    parseCall.scheme \o << ":", "/", "/" >> \o parseCall.host
      \o (IF parseCall.port = << >> THEN << >> ELSE << ":" >> \o parseCall.port)
      \o (IF parseCall.path = << >> THEN << "/" >> ELSE parseCall.path)

\* C20: for fragments Parse accepts, the URL returned is the URL
\* scheme://host[:port]path, with ":port" present exactly when port is
\* non-empty and "/" in place of an empty path; and for (https,
\* example.com, 8080, "") its string form is https://example.com:8080/.
C20_ParsedURL ==
    (parseCall.pc = "returned" /\ parseCall.out.err = "nil")
        => /\ parseCall.out.url = URLParse(ExpectedText)
           /\ parseCall.out.url.ok
           /\ (/\ parseCall.scheme = Https
               /\ parseCall.host = ExampleCom
               /\ parseCall.port = Port8080
               /\ parseCall.path = << >>)
                => /\ URLString(parseCall.out.url)
                        = << "h", "t", "t", "p", "s", ":", "/", "/",
                             "e", "x", "a", "m", "p", "l", "e", ".", "c", "o", "m",
                             ":", "8", "0", "8", "0", "/" >>
                   /\ parseCall.out.url.Host = ExampleCom \o << ":" >> \o Port8080
                   /\ parseCall.out.url.Path = << "/" >>

\* C20 witness: Parse has returned the URL of the fragments of TestParse's
\* valid case.
C20_Witness ==
    /\ parseCall.pc = "returned"
    /\ parseCall.out.err = "nil"
    /\ parseCall.scheme = Https
    /\ parseCall.host = ExampleCom
    /\ parseCall.port = Port8080
    /\ parseCall.path = << >>

\* ===================================== concurrent calls on one shared Client
\* The goroutines that call Client.do on the same Client.
Callers == { 1, 2 }

\* What the server answers in the concurrent study.
ConcStatuses == { StatusOK, StatusServiceUnavailable }

\* The locals of one call; caller c sends the one-byte body << c >>.
NewCall(c) ==
    [origBody |-> [present |-> TRUE, data |-> << c >>],
     ctxErr |-> "nil", pc |-> "start", attempt |-> 0, resp |-> NilResp,
     err |-> "nil", body |-> NilBuffer,
     reqBody |-> [kind |-> "orig", data |-> << c >>, pos |-> 0],
     result |-> NoResult, sent |-> << >>, outcomes |-> << >>]

\* A body buffer kept in a field of the Client, where the first caller's
\* buffer is what every call reads.
ClientBody(cs, c) == cs[1].body

\* Line 206: body is a local of the call.
CallBody(cs, c) == cs[c].body

\* config.go line 160: the length of a valid API key.
KeyLength == 44

\* An API key of n characters, each of them ch.
KeyOf(n, ch) == [i \in 1..n |-> ch]

\* An API key of n characters.
Key(n) == KeyOf(n, "k")

\* The keys a Client is configured with: NewClient accepts those of
\* KeyLength characters.
ClientKeys == { Key(KeyLength), KeyOf(KeyLength, "j") }

\* part_004 line 16: meta.UserAgent.
UserAgent == << "cloudcraft-go", "/", "1.1.0" >>

Bearer == << "B", "e", "a", "r", "e", "r", " " >>

\* Client.request writing the key alone in Authorization.
RequestBareKey(key) ==
    [Authorization |-> key, ContentType |-> "application/json",
     UserAgent |-> UserAgent]

\* Lines 292-307: the headers of the request Client.request builds for a
\* Client configured with key.
Request(key) ==
    [Authorization |-> Bearer \o key, ContentType |-> "application/json",
     UserAgent |-> UserAgent]

\* The call c of a Client configured with key: its request is built by
\* Client.request before Client.do is called with it.
NewCallWith(c, key) ==
    NewCall(c) @@ [key |-> key, header |-> Request(key), sentHeaders |-> << >>]

InitConc ==
    /\ MaxRetries \in 1..MaxR
    /\ DoAtRest
    /\ retryableCall = NoRetryableCall
    /\ waitCall = NoWaitCall
    /\ parseCall = NoParseCall
    /\ \E key \in ClientKeys : calls = [c \in Callers |-> NewCallWith(c, key)]
    /\ newClientCall = NoNewClientCall
    /\ httpCall = NoHttpCall

ConcUnchanged == UNCHANGED << doVars, retryableCall, waitCall, parseCall, newClientCall, httpCall >>

\* Lines 211-224 in call c.
CallBufferBody(c) ==
    LET s == calls[c]
    IN  /\ s.pc = "start"
        /\ \E ok \in BOOLEAN :
             calls' = [calls EXCEPT ![c] =
                 IF ~s.origBody.present THEN [s EXCEPT !.pc = "loop"]
                 ELSE IF ok
                 THEN [s EXCEPT !.body = [present |-> TRUE, buf |-> s.origBody.data,
                                          off |-> 0],
                                !.reqBody = [kind |-> "buffer", data |-> << >>, pos |-> 0],
                                !.pc = "loop"]
                 ELSE [s EXCEPT !.err = "read", !.result = Fail(WrappedErr("read")),
                                !.pc = "done"]]
        /\ ConcUnchanged

\* Lines 226-231 in call c.
CallStartAttempt(c) ==
    LET s == calls[c]
        b == CallBody(calls, c)
        rb == IF b.present THEN FreshView(b) ELSE s.reqBody
    IN  /\ s.pc = "loop"
        /\ calls' = [calls EXCEPT ![c] =
               IF LoopCond(s.attempt, MaxRetries)
               THEN [s EXCEPT !.reqBody = rb,
                              !.sent = Append(@, Readable(rb, b)),
                              !.sentHeaders = Append(@, s.header),
                              !.pc = "sending"]
               ELSE [s EXCEPT !.pc = "post"]]
        /\ ConcUnchanged

\* Lines 231-240 in call c; the response to caller c carries c as its
\* header and an empty body, and what the drain returned is kept in err.
CallDoReturns(c) ==
    LET s == calls[c]
    IN  /\ s.pc = "sending"
        /\ \E n \in { 0, Len(Readable(s.reqBody, s.body)) } :
             LET t == [s EXCEPT !.reqBody = Consume(s.reqBody, n),
                                !.body = ConsumeBuffer(s.reqBody, s.body, n)]
             IN  \/ calls' = [calls EXCEPT ![c] =
                        [t EXCEPT !.resp = NilResp, !.err = "transport",
                                  !.outcomes = Append(@, 0),
                                  !.pc = "post"]]
                 \/ /\ s.ctxErr = "nil"
                    /\ \E st \in ConcStatuses :
                         LET r == [id |-> Len(s.sent), StatusCode |-> st,
                                   Header |-> c, Body |-> << >>]
                         IN  IF BreakLoop(r, "nil")
                             THEN calls' = [calls EXCEPT ![c] =
                                      [t EXCEPT !.resp = r, !.err = "nil",
                                                !.outcomes = Append(@, st),
                                                !.pc = "post"]]
                             ELSE \E d \in DrainResults :
                                    calls' = [calls EXCEPT ![c] =
                                      [t EXCEPT !.resp = r, !.err = d,
                                                !.outcomes = Append(@, st),
                                                !.pc = "waiting"]]
        /\ ConcUnchanged

\* Lines 242-246 in call c.
CallWaitReturns(c) ==
    LET s == calls[c]
    IN  /\ s.pc = "waiting"
        /\ calls' = [calls EXCEPT ![c] =
               IF Wait(s.ctxErr) # "nil"
               THEN [s EXCEPT !.result = Fail(CtxErr(Wait(s.ctxErr))), !.pc = "done"]
               ELSE [s EXCEPT !.attempt = @ + 1, !.pc = "loop"]]
        /\ ConcUnchanged

\* Lines 248-288 in call c.
CallReturn(c) ==
    LET s == calls[c]
    IN  /\ s.pc = "post"
        /\ IF RetriesExhausted(s.resp, s.attempt, MaxRetries)
           THEN calls' = [calls EXCEPT ![c] =
                    [s EXCEPT !.result = Fail(ErrMaxRetriesExceeded(s.attempt)),
                              !.pc = "done"]]
           ELSE IF s.err # "nil"
           THEN calls' = [calls EXCEPT ![c] =
                    [s EXCEPT !.result = Fail(IF s.ctxErr # "nil" THEN CtxErr(s.ctxErr)
                                              ELSE WrappedErr(s.err)),
                              !.pc = "done"]]
           ELSE \E copyOK \in BOOLEAN, d \in DrainResults :
                  /\ StatusFailed(s.resp.StatusCode) => copyOK
                  /\ calls' = [calls EXCEPT ![c] =
                       [s EXCEPT !.err = d,
                                 !.result =
                                    IF StatusFailed(s.resp.StatusCode)
                                    THEN Fail(ErrRequestFailed(s.resp.StatusCode))
                                    ELSE IF ~copyOK THEN Fail(WrappedErr("copy"))
                                    ELSE [resp |-> NewResponse(s.resp, s.resp.Body),
                                          err |-> NoErr],
                                 !.pc = "done"]]
        /\ ConcUnchanged

\* The caller of call c cancels its context.
CallCancel(c) ==
    LET s == calls[c]
    IN  /\ s.pc \notin { "start", "done" }
        /\ s.ctxErr = "nil"
        /\ calls' = [calls EXCEPT ![c] = [s EXCEPT !.ctxErr = "Canceled"]]
        /\ ConcUnchanged

NextConc ==
    \E c \in Callers :
        \/ CallBufferBody(c)
        \/ CallStartAttempt(c)
        \/ CallDoReturns(c)
        \/ CallWaitReturns(c)
        \/ CallReturn(c)
        \/ CallCancel(c)

SpecConc == InitConc /\ [][NextConc]_vars

\* Call c is independent of the other calls: what it sent, how often, and
\* what it returned follow from its own body, counter and responses.
Independent(c) ==
    LET s == calls[c]
    IN  /\ \A i \in 1..Len(s.sent) : s.sent[i] = << c >>
        /\ Len(s.sent) <= MaxRetries + 1
        /\ s.pc = "sending" => Len(s.sent) = s.attempt + 1
        /\ s.pc = "done" /\ s.result.err = NoErr
              => /\ s.result.resp.Header = c
                 /\ s.result.resp.Status = Last(s.outcomes)
        /\ s.pc = "done" /\ s.result.err.kind = "ErrRequestFailed"
              => /\ s.result.err.code = Last(s.outcomes)
                 /\ Len(s.sent) = MaxRetries + 1
        /\ s.pc = "done" /\ s.result.err.kind = "ErrMaxRetriesExceeded"
              => /\ s.result.err.code = s.attempt
                 /\ Last(s.outcomes) = 0

\* C18: concurrent calls on one Client do not interfere: in every
\* interleaving each call sends only its own body bytes, performs at most
\* MaxRetries + 1 sends counted by its own attempt counter, and returns the
\* outcome of its own responses; and no step of a call writes the shared
\* RetryPolicy.
C18_CallsIndependent ==
    /\ [](\A c \in Callers : Independent(c))
    /\ [][MaxRetries' = MaxRetries]_vars

\* C18 witness: with the calls interleaved, call 1 has returned its own
\* 200 after a retry while call 2, two sends into its own retries, is
\* waiting.
C18_Witness ==
    /\ calls[1].pc = "done"
    /\ calls[1].outcomes = << StatusServiceUnavailable, StatusOK >>
    /\ calls[1].result.err = NoErr
    /\ calls[2].pc = "waiting"
    /\ calls[2].outcomes = << StatusServiceUnavailable, StatusServiceUnavailable >>

\* C24: if copying the body of the final response into the returned buffer
\* fails, Client.do returns a nil Response and a non-nil error, and the
\* deferred cleanup has still run DrainResponseBody on that response and
\* its body has been closed.
C24_CopyFailureSurfaced ==
    (Done /\ copyFailed)
        => /\ result.resp = NilResponse
           /\ result.err # NoErr
           /\ bodies[resp.id].drains # << >>
           /\ bodies[resp.id].closes >= 1

\* C24 witness: the first send was answered 200 with a body, the copy
\* failed, the drain that followed failed too, and the call has returned.
C24_Witness ==
    /\ Done
    /\ copyFailed
    /\ outcomes = << StatusOK >>
    /\ resp.Body # << >>
    /\ bodies[1].drains = << "drain" >>

\* C25: a failure while draining or closing the body of a retryable
\* response never changes the outcome of Client.do.  With clean drains a
\* call that is never cancelled and is answered a retryable status above
\* 204 on each of its MaxRetries + 1 sends returns ErrRequestFailed with
\* the last status; the claim is that it returns the same whatever the
\* drains of those responses reported.
C25_DrainFailureHarmless ==
    (/\ Done
     /\ ~CtxDone
     /\ AllAnsweredRetryable
     /\ Len(sent) = MaxRetries + 1
     /\ \A i \in 1..Len(outcomes) : StatusFailed(outcomes[i]))
        => result = Fail(ErrRequestFailed(Last(outcomes)))

\* C26: whenever Client.do returns a non-nil Response, the response it was
\* built from had not been drained or closed before its body was copied
\* (the deferred drain is then the only one it has had) and the returned
\* Body is that response's body.
C26_ResponseFromUndrained ==
    (Done /\ Succeeded)
        => /\ Len(bodies[resp.id].drains) = 1
           /\ result.resp.Body = resp.Body

\* C27: within Client.do the policy's IsRetryable predicate is evaluated
\* only with a nil error and a non-nil response, once for every send that
\* returned a response and never for a send that failed.
C27_PredicateArguments ==
    /\ \A i \in 1..Len(asked) : asked[i].err = "nil" /\ asked[i].resp # 0
    /\ Len(asked) = Cardinality({ i \in 1..Len(outcomes) : outcomes[i] # 0 })

\* C27 witness: a send failed after an earlier one had been answered, and
\* the predicate has been evaluated for the answer only.
C27_Witness ==
    /\ Len(outcomes) = 2
    /\ outcomes[1] # 0
    /\ outcomes[2] = 0
    /\ Len(asked) = 1

\* C28: Client.do calls Wait(ctx, k) exactly once after each retryable
\* response of attempt k, with k = 0, 1, 2, ... in increasing order, the
\* last permitted attempt k = MaxRetries included: a call that exhausts its
\* retries has waited MaxRetries + 1 times, and a cancellation during the
\* wait after the last attempt makes the call return the context's error.
C28_WaitAfterEachRetryable ==
    /\ \A i \in 1..Len(waits) :
         /\ waits[i] = i - 1
         /\ outcomes[i] \in RetryableStatuses
    /\ Len(waits) = Cardinality({ i \in 1..Len(outcomes) :
                                    outcomes[i] \in RetryableStatuses })
    /\ (Done /\ ~CtxDone /\ AllAnsweredRetryable)
          => Len(waits) = MaxRetries + 1
    /\ (Done /\ cancelledAt = [pc |-> "waiting", attempt |-> MaxRetries])
          => result = Fail(CtxErr(ctxErr))

\* C28 witness: a call cancelled during the wait after its last permitted
\* attempt has returned, having waited MaxRetries + 1 times.
C28_Witness ==
    /\ Done
    /\ cancelledAt = [pc |-> "waiting", attempt |-> MaxRetries]
    /\ Len(waits) = MaxRetries + 1
    /\ Last(outcomes) = StatusServiceUnavailable

\* C29: if reading the original request body fails while it is buffered,
\* Client.do returns a nil Response and that error with no send performed;
\* if it succeeds, the original stream has been read to exhaustion once,
\* before the first send: from the first send on the buffer holds the whole
\* body and req.Body is no longer the original stream.
C29_BodyBufferedFirst ==
    /\ err = "read"
          => /\ Done
             /\ result = Fail(WrappedErr("read"))
             /\ sent = << >>
    /\ (origBody.present /\ sent # << >>)
          => /\ body.present
             /\ body.buf = origBody.data
             /\ reqBody.kind # "orig"
             /\ sent[1].view = origBody.data

\* C29 witness: a call whose body could not be read has returned without
\* sending.
C29_Witness ==
    /\ Done
    /\ origBody.present
    /\ origBody.data # << >>
    /\ err = "read"
    /\ sent = << >>

\* ------------------------------------------------------------- NewClient
\* config.go line 50: DefaultTimeout = time.Second * 80.
DefaultTimeout == 80 * Second

\* The value of DefaultMaxRetries is not in the sources; the specification
\* lets NewClient run with each positive value up to the bound.
DefaultMaxRetriesValues == 1..MaxR

\* No Client.
NilClient == [nil |-> TRUE]

\* fmt.Errorf("%w: %w", a, b): an error that wraps both.
WrapBoth(a, b) == << a, b >>

\* errors.Is on the errors of NewClient.
ErrorsIs(e, target) == \E i \in 1..Len(e) : e[i] = target

\* Validate with the key checked before the endpoint fragments.
ValidateKeyFirst(c) ==
    IF c.Key = << >> THEN "ErrMissingKey"
    ELSE IF Len(c.Key) # KeyLength THEN "ErrInvalidKey"
    ELSE IF c.Scheme = << >> THEN "ErrMissingEndpointScheme"
    ELSE IF c.Host = << >> THEN "ErrMissingEndpointHost"
    ELSE "nil"

\* config.go lines 147-165.
Validate(c) ==
    IF c.Scheme = << >> THEN "ErrMissingEndpointScheme"
    ELSE IF c.Host = << >> THEN "ErrMissingEndpointHost"
    ELSE IF c.Key = << >> THEN "ErrMissingKey"
    ELSE IF Len(c.Key) # KeyLength THEN "ErrInvalidKey"
    ELSE "nil"

\* Lines 84-86 replacing only a negative value.
RetriesOrDefaultKeepingZero(n, d) == IF n < 0 THEN d ELSE n

\* Lines 84-86: cfg.MaxRetries after NewClient, d being DefaultMaxRetries.
RetriesOrDefault(n, d) == IF n <= 0 THEN d ELSE n

\* Lines 88-90: cfg.Timeout after NewClient.
TimeoutOrDefault(t) == IF t <= 0 THEN DefaultTimeout ELSE t

\* retry.go lines 123-142: the http.Client of a Client.
XhttpNewClient(timeout) ==
    [Timeout |-> timeout, CheckRedirect |-> "ErrUseLastResponse"]

\* Lines 68-110: the Client and error returned for the Config c, and the
\* Config as NewClient leaves it; d is DefaultMaxRetries.
NewClient(c, d) ==
    LET invalid == Validate(c)
        baseURL == Parse(c.Scheme, c.Host, c.Port, c.Path)
        set == [c EXCEPT !.endpoint = baseURL.url,
                         !.MaxRetries = RetriesOrDefault(c.MaxRetries, d),
                         !.Timeout = TimeoutOrDefault(c.Timeout)]
    IN  IF invalid # "nil"
        THEN [client |-> NilClient, err |-> WrapBoth("ErrInvalidConfig", invalid),
              cfg |-> c]
        ELSE IF baseURL.err # "nil"
        THEN [client |-> NilClient,
              err |-> WrapBoth("ErrInvalidConfig", baseURL.err), cfg |-> c]
        ELSE [client |-> [nil |-> FALSE,
                          httpClient |-> XhttpNewClient(set.Timeout),
                          retryPolicy |-> [IsRetryable |-> "DefaultIsRetryable",
                                           MaxRetries |-> set.MaxRetries,
                                           MinRetryDelay |-> DefaultMinRetryDelay,
                                           MaxRetryDelay |-> DefaultMaxRetryDelay]],
              err |-> << >>, cfg |-> set]

\* The Configs NewClient is called with: those of TestNewClient (a valid one,
\* no key, a short key, the scheme ftp), and each fragment empty, a port that
\* is not a number, a key one character short and one too long, the retries
\* and the timeout negative, zero and positive.
ConfigKeys == { Key(n) : n \in { 0, KeyLength - 1, KeyLength, KeyLength + 1 } }

ConfigRetries == -1..MaxR

ConfigTimeouts == { -1, 0, 5 * Second }

Configs ==
    [Scheme : { << >>, Https, Ftp }, Host : { << >>, ExampleCom },
     Port : { Port8080, << "x" >> }, Path : { Slash }, Key : ConfigKeys,
     MaxRetries : ConfigRetries, Timeout : ConfigTimeouts, endpoint : { NilURL }]

InitNewClient ==
    /\ DoIdle
    /\ retryableCall = NoRetryableCall
    /\ waitCall = NoWaitCall
    /\ parseCall = NoParseCall
    /\ calls = NoCalls
    /\ httpCall = NoHttpCall
    /\ \E c \in Configs, d \in DefaultMaxRetriesValues :
         newClientCall = [pc |-> "call", given |-> c, cfg |-> c, default |-> d,
                          client |-> NilClient, err |-> << >>]

\* Lines 68-110, one call.
ApplyNewClient ==
    /\ newClientCall.pc = "call"
    /\ LET out == NewClient(newClientCall.cfg, newClientCall.default)
       IN  newClientCall' = [newClientCall EXCEPT !.pc = "returned",
                                                  !.cfg = out.cfg,
                                                  !.client = out.client,
                                                  !.err = out.err]
    /\ UNCHANGED << doVars, retryableCall, waitCall, parseCall, calls, httpCall >>

NextNewClient == ApplyNewClient

SpecNewClient == InitNewClient /\ [][NextNewClient]_vars

NewClientReturned == newClientCall.pc = "returned"

\* The first check the given Config fails, in the order of the checks.
FirstFailure(c) ==
    IF c.Scheme = << >> THEN "ErrMissingEndpointScheme"
    ELSE IF c.Host = << >> THEN "ErrMissingEndpointHost"
    ELSE IF c.Key = << >> THEN "ErrMissingKey"
    ELSE IF Len(c.Key) # 44 THEN "ErrInvalidKey"
    ELSE IF c.Scheme \notin { Http, Https } THEN "ErrInvalidScheme"
    ELSE "nil"

RedirectClass == 300..399

\* The statuses for which http.Client consults CheckRedirect when the
\* response has a Location header.
RedirectStatuses == { 301, StatusFound, 303, 307, 308 }

\* The policy of http.Client when CheckRedirect is not set: follow.
CheckRedirectFollow(req, via) == "nil"

\* retry.go lines 138-140.
CheckRedirect(req, via) == "ErrUseLastResponse"

\* The response of a server answering with the status s.
Answer(s) == [id |-> 1, StatusCode |-> s, Header |-> 1, Body |-> << >>]

\* Lines 232-259 of Client.do for a response r received without error: the
\* loop goes on, or the call returns.
Classify(r) ==
    IF ~BreakLoop(r, "nil") THEN [resp |-> NilResponse, err |-> [kind |-> "retry", code |-> 0]]
    ELSE IF StatusFailed(r.StatusCode) THEN Fail(ErrRequestFailed(r.StatusCode))
    ELSE [resp |-> NewResponse(r, r.Body), err |-> NoErr]

\* One request through the http.Client of a Client, to a server that answers
\* with a 3xx status, with or without a Location naming another server.
InitRedirect ==
    /\ DoIdle
    /\ retryableCall = NoRetryableCall
    /\ waitCall = NoWaitCall
    /\ parseCall = NoParseCall
    /\ calls = NoCalls
    /\ newClientCall = NoNewClientCall
    /\ \E s \in RedirectClass, l \in BOOLEAN,
          t \in { StatusOK, StatusServiceUnavailable } :
         httpCall = [pc |-> "send", status |-> s, location |-> l,
                     targetStatus |-> t, to |-> "origin", requests |-> << >>,
                     resp |-> NilResp, err |-> "nil", result |-> Fail(NoErr)]

\* http.Client.Do sends the request to the server it is addressed to.
HttpSend ==
    /\ httpCall.pc = "send"
    /\ httpCall' = [httpCall EXCEPT
                      !.pc = "answered",
                      !.requests = Append(@, httpCall.to),
                      !.resp = Answer(IF httpCall.to = "origin" THEN httpCall.status
                                      ELSE httpCall.targetStatus)]
    /\ UNCHANGED << doVars, retryableCall, waitCall, parseCall, calls, newClientCall >>

\* http.Client.Do with the answer: a redirect is put to CheckRedirect, which
\* has the response returned as it is (ErrUseLastResponse), the redirect
\* followed (nil), or the call fail.
HttpAnswered ==
    /\ httpCall.pc = "answered"
    /\ LET redirect == httpCall.resp.StatusCode \in RedirectStatuses /\ httpCall.location
           policy == CheckRedirect(httpCall.to, httpCall.requests)
       IN  IF redirect /\ policy = "nil"
           THEN httpCall' = [httpCall EXCEPT !.pc = "send", !.to = "target",
                                             !.location = FALSE]
           ELSE IF redirect /\ policy # "ErrUseLastResponse"
           THEN httpCall' = [httpCall EXCEPT !.pc = "returned", !.err = policy]
           ELSE httpCall' = [httpCall EXCEPT !.pc = "returned"]
    /\ UNCHANGED << doVars, retryableCall, waitCall, parseCall, calls, newClientCall >>

\* Client.do with what the http.Client returned.
DoClassifies ==
    /\ httpCall.pc = "returned"
    /\ httpCall' = [httpCall EXCEPT
                      !.pc = "done",
                      !.result = IF httpCall.err # "nil" THEN Fail(WrappedErr(httpCall.err))
                                 ELSE Classify(httpCall.resp)]
    /\ UNCHANGED << doVars, retryableCall, waitCall, parseCall, calls, newClientCall >>

NextRedirect == HttpSend \/ HttpAnswered \/ DoClassifies

SpecRedirect == InitRedirect /\ [][NextRedirect]_vars

\* C22: a 3xx answer is never followed: the http client returns that
\* response with a nil error after one request to the original server and
\* none to the server the Location names, and Client.do reports
\* ErrRequestFailed with the 3xx status.
C22_RedirectNotFollowed ==
    /\ \A i \in 1..Len(httpCall.requests) : httpCall.requests[i] = "origin"
    /\ httpCall.pc \in { "returned", "done" }
          => /\ httpCall.requests = << "origin" >>
             /\ httpCall.resp.StatusCode = httpCall.status
             /\ httpCall.err = "nil"
    /\ httpCall.pc = "done"
          => httpCall.result = Fail(ErrRequestFailed(httpCall.status))

\* A 302 with a Location has been returned to Client.do and reported.
C22_Witness ==
    /\ httpCall.pc = "done"
    /\ httpCall.status = StatusFound
    /\ httpCall.location
    /\ httpCall.result = Fail(ErrRequestFailed(StatusFound))

\* C23: the request Client.request builds carries Authorization "Bearer "
\* followed by the configured key, Content-Type "application/json" and the
\* User-Agent of the package, and every send of one Client.do call, the
\* first and each retry, goes out with these same headers.
C23_HeadersOnEveryAttempt ==
    \A c \in Callers :
        LET s == calls[c]
            expected == [Authorization |-> << "B", "e", "a", "r", "e", "r", " " >> \o s.key,
                         ContentType |-> "application/json",
                         UserAgent |-> << "cloudcraft-go", "/", "1.1.0" >>]
        IN  /\ s.header = expected
            /\ Len(s.sentHeaders) = Len(s.sent)
            /\ \A i \in 1..Len(s.sentHeaders) : s.sentHeaders[i] = expected

\* A call has sent its request MaxRetries + 1 times under the second key.
C23_Witness ==
    /\ calls[1].pc = "done"
    /\ Len(calls[1].sentHeaders) = MaxRetries + 1
    /\ MaxRetries >= 1
    /\ calls[1].key = KeyOf(KeyLength, "j")

====
